---- MODULE Spec2Model ----
(***************************************************************************)
(* kumawise: Uptime Kuma webhook alerts reconciled against ConnectWise     *)
(* tickets.  The model follows src/app.py (webhook, process_alert_task,    *)
(* handle_alert_logic) and src/connectwise.py (ConnectWiseClient).         *)
(*                                                                         *)
(* One step of a unit is one collaborator call (Redis get/set/delete, PSA  *)
(* find/create/close) together with the local code up to the next call,    *)
(* so workers interleave exactly at the blocking points of the code.       *)
(***************************************************************************)
EXTENDS Integers, Sequences, FiniteSets, TLC

\* ------------------------------------------------------------- bounds
\* webhook requests the alert source sends in one run
MaxRequests == 2
\* environment events in one run: a collaborator call (Redis or PSA) that
\* fails, a cache entry that expires, a ticket closed by an operator
MaxEvents == 1

\* ---------------------------------------------------- program constants
\* @celery.task(..., max_retries=5, ...)
max_retries == 5
\* retry_delay = 2 ** self.request.retries * 60
BackoffSeconds == 60

\* ------------------------------------------------------------- values
\* Python None for an id, and for a Redis value (redis get of a missing key);
\* `if cached_val:` is false for None and for b"" alike.
NoId == 0
NoVal == <<>>

\* monitor names, as character sequences: the second contains the first
Monitors == { <<"d", "b">>, <<"d", "b", "2">> }

\* heartbeat.status: 0 = DOWN, 1 = UP, 2 stands for every other value (or none)
Statuses == {0, 1, 2}

\* CW_TICKET_PREFIX, default 'Uptime Kuma Alert:' (one token, then the space)
CW_TICKET_PREFIX == <<"Uptime Kuma Alert:">>

ticket_summary(monitor_name) ==
    IF CW_TICKET_PREFIX # <<>>
    THEN CW_TICKET_PREFIX \o <<" ">> \o monitor_name
    ELSE monitor_name

\* mutant: `else:` in place of `elif status == 1:`
BranchElse(status) == IF status = 0 THEN "down" ELSE "up"

\* `if status == 0:` ... `elif status == 1:` ... (neither: no branch)
Branch(status) ==
    IF status = 0 THEN "down" ELSE IF status = 1 THEN "up" ELSE "none"

\* alert_type = "DOWN" if status == 0 else "UP"
alert_type(status) == IF status = 0 THEN "DOWN" ELSE "UP"

\* alert_type.lower()
Lower(t) == IF t = "DOWN" THEN "down" ELSE "up"

\* str(ticket_id) and int(cached_val.decode()), on decimal digit sequences
Digits == <<"0", "1", "2", "3", "4", "5", "6", "7", "8", "9">>

RECURSIVE Str(_)
Str(n) ==
    IF n < 10 THEN <<Digits[n + 1]>>
    ELSE Str(n \div 10) \o <<Digits[(n % 10) + 1]>>

DigitValue(c) == CHOOSE d \in 0..9 : Digits[d + 1] = c

RECURSIVE ParseInt(_)
ParseInt(s) ==
    IF Len(s) = 1 THEN DigitValue(s[1])
    ELSE 10 * ParseInt(SubSeq(s, 1, Len(s) - 1)) + DigitValue(s[Len(s)])

\* mutant: the cache-hit test never fires
TruthyNever(v) == FALSE

\* `if cached_val:`
Truthy(v) == v # NoVal

\* ConnectWise condition "summary contains '<needle>'"
Contains(hay, needle) ==
    \E i \in 0..(Len(hay) - Len(needle)) :
        SubSeq(hay, i + 1, i + Len(needle)) = needle

VARIABLES
    cache,        \* Redis: monitor name -> stored value (ticket_state:<name>)
    tickets,      \* PSA: sequence of tickets, the id is the index
    units,        \* the Celery units, in the order the webhook enqueued them
    response,     \* status code of the last webhook response (0: none yet)
    requestsLeft, \* webhook requests still to come
    watched,      \* the monitor names the alert source sends alerts for
    senders,      \* the <<remote address, secret header>> pairs requests come with
    request,      \* the last webhook request: <<remote_addr, secret, body>>
    eventsLeft,   \* environment events still to come (Unlimited: no limit)
    events        \* the kinds of environment event that happened so far

vars == <<cache, tickets, units, response, request, requestsLeft, watched,
          senders, eventsLeft, events>>

\* eventsLeft when the run limits no environment event: above every limit
Unlimited == MaxEvents + 1

UnitIds == DOMAIN units

Running == {"find", "set_found", "create", "set_new", "close", "delete"}
Final == {"succeeded", "failed"}

\* the ticket exists and is not closed
IsOpen(ticket_id) == ticket_id \in DOMAIN tickets /\ ~tickets[ticket_id].closed

\* mutant: the search condition asks for closed tickets (closedFlag=true)
OpenMatchesClosed(summary_contains) ==
    { i \in DOMAIN tickets :
        tickets[i].closed /\ Contains(tickets[i].summary, summary_contains) }

\* closedFlag=false AND summary contains '<summary_contains>'
OpenMatches(summary_contains) ==
    { i \in DOMAIN tickets :
        ~tickets[i].closed /\ Contains(tickets[i].summary, summary_contains) }

\* find_open_ticket when the request succeeds: data[0] of a page of size 1
\* (the order of the matching tickets is the server's), or None
FindResults(summary_contains) ==
    IF OpenMatches(summary_contains) = {} THEN {NoId}
    ELSE OpenMatches(summary_contains)

\* process_alert_task.delay(data, request_id)
NewUnit(data) ==
    [ status |-> data.status, name |-> data.name,
      st |-> "queued", retries |-> 0,
      cached_val |-> NoVal, existing_ticket |-> NoId,
      new_ticket |-> NoId, ticket_id |-> NoId, closed_ok |-> FALSE,
      \* PSA_TASK_COUNT label incremented / PSA_TASK_DURATION label observed
      \* by the current invocation, countdown of the last retry
      outcome |-> <<>>, observed |-> "", delay |-> 0,
      \* observations: executions, create_ticket and close_ticket calls of
      \* the unit; collaborator calls and close_ticket argument of the
      \* current invocation; whether the ticket of the id its get returned
      \* was open then; the DOWN/UP units that had ended when it first ran;
      \* whether some invocation of the unit got a ticket from create_ticket,
      \* True from close_ticket; whether the current invocation began after
      \* an invocation of another UP unit of the monitor that got True from
      \* close_ticket had ended
      execs |-> 0, creates |-> 0, closes |-> 0,
      calls |-> <<>>, closeArg |-> NoId, cachedOpen |-> FALSE, before |-> {},
      created |-> FALSE, closed |-> FALSE, afterClose |-> FALSE ]

Init ==
    /\ cache = [m \in Monitors |-> NoVal]
    /\ tickets = <<>>
    /\ units = <<>>
    /\ response = 0
    /\ requestsLeft = MaxRequests
    /\ watched = { <<"d", "b">> }
    /\ senders = { <<2, "s1">> }
    /\ request = <<>>
    /\ eventsLeft = MaxEvents
    /\ events = {}

\* ------------------------------------------------------ webhook (the gate)
\* request.remote_addr: none, an address of a 2-bit address space, or a
\* string that is no address
NoAddr == -1
BadAddr == -2
RemoteAddrs == {NoAddr, BadAddr} \cup 0..3

\* TRUSTED_IPS, a list of networks (base/prefix length); here "2/1" = {2, 3}
TRUSTED_IPS == << [net |-> 2, prefixlen |-> 1] >>

\* client_ip in ipaddress.ip_network(rule, strict=False)
InNetwork(ip, rule) ==
    ip \div (2 ^ (2 - rule.prefixlen)) = rule.net \div (2 ^ (2 - rule.prefixlen))

is_ip_trusted(remote_addr) ==
    IF TRUSTED_IPS = <<>> \/ \E i \in DOMAIN TRUSTED_IPS : TRUSTED_IPS[i].prefixlen = 0
    THEN TRUE
    ELSE IF remote_addr = BadAddr THEN FALSE
    ELSE \E i \in DOMAIN TRUSTED_IPS : InNetwork(remote_addr, TRUSTED_IPS[i])

\* WEBHOOK_SECRET (configured) and the X-KumaWise-Secret header ("" = absent)
WEBHOOK_SECRET == {"s1"}
ProvidedSecrets == {"", "s1", "wrong"}

\* request.json: <<>> when empty or absent, else the payload
Payloads == [status : Statuses, name : watched]
RequestBodies == {<<>>} \cup { <<p>> : p \in Payloads }

\* mutant: the secret is checked before the address
GateSecretFirst(remote_addr, provided_secret, data) ==
    IF WEBHOOK_SECRET # {} /\ provided_secret \notin WEBHOOK_SECRET THEN 401
    ELSE IF remote_addr # NoAddr /\ ~is_ip_trusted(remote_addr) THEN 403
    ELSE IF data = <<>> THEN 400
    ELSE 202

\* the status code webhook() answers with
Gate(remote_addr, provided_secret, data) ==
    IF remote_addr # NoAddr /\ ~is_ip_trusted(remote_addr) THEN 403
    ELSE IF WEBHOOK_SECRET # {} /\ provided_secret \notin WEBHOOK_SECRET THEN 401
    ELSE IF data = <<>> THEN 400
    ELSE 202

Webhook ==
    /\ requestsLeft > 0
    /\ \E sender \in senders, data \in RequestBodies :
        /\ request' = <<sender[1], sender[2], data>>
        /\ response' = Gate(sender[1], sender[2], data)
        /\ units' = IF response' = 202 THEN Append(units, NewUnit(data[1]))
                    ELSE units
    /\ requestsLeft' = requestsLeft - 1
    /\ UNCHANGED <<cache, tickets, watched, senders, eventsLeft, events>>

\* ------------------------------------------------- process_alert_task
\* mutant: a linear backoff, (retries + 1) * 60
RetryDelayLinear(retries) == (retries + 1) * BackoffSeconds

\* retry_delay = 2 ** self.request.retries * 60
RetryDelay(retries) == (2 ^ retries) * BackoffSeconds

\* mutant: the cap is off by one
RetryAllowedOneMore(retries) == retries <= max_retries

\* Task.retry: re-schedules unless the retries made reached max_retries
RetryAllowed(retries) == retries < max_retries

\* handle_alert_logic returned: the task succeeded
Return(u, r) == units' = [units EXCEPT ![u] = [r EXCEPT !.st = "succeeded"]]

\* mutant: the retry is counted but the unit is not put back on the queue
Stranded(e) ==
    [e EXCEPT !.st = "retry", !.retries = e.retries + 1,
              !.delay = RetryDelay(e.retries)]

\* self.retry(exc=exc, countdown=retry_delay): the unit goes back to the
\* queue with one more retry counted, due after the countdown
Retried(e) ==
    [e EXCEPT !.st = "queued", !.retries = e.retries + 1,
              !.delay = RetryDelay(e.retries)]

\* handle_alert_logic raised: the except clause records the error outcome
\* and re-raises; process_alert_task retries with the backoff or gives up
Raise(u, r) ==
    LET e == [r EXCEPT !.outcome = <<Lower(alert_type(r.status)), "error">>] IN
    units' = [units EXCEPT ![u] =
        IF RetryAllowed(e.retries) THEN Retried(e)
        ELSE [e EXCEPT !.st = "failed"]]

\* an environment event of a kind happens, if the run still has one
Event(kind) ==
    /\ eventsLeft # 0
    /\ eventsLeft' = IF eventsLeft = Unlimited THEN Unlimited ELSE eventsLeft - 1
    /\ events' = events \cup {kind}

\* a collaborator call fails / answers
Fault == Event("fault")
NoFault == UNCHANGED <<eventsLeft, events>>

\* ------------------------------------------------- handle_alert_logic
\* mutant: close_ticket is called whether or not an id was resolved
ShouldCloseAlways(ticket_id) == TRUE

\* `if ticket_id:`
ShouldClose(ticket_id) == ticket_id # NoId

\* A worker takes the unit: lines 86-97, then the first Redis get of the
\* DOWN or UP branch; any other status falls through to the duration metric.
Start(u) ==
    /\ units[u].st = "queued"
    /\ LET r == [units[u] EXCEPT
                   !.execs = @ + 1,
                   !.before = IF units[u].execs = 0 /\ units[u].status \in {0, 1}
                              THEN { v \in UnitIds : /\ units[v].st \in Final
                                                     /\ units[v].status \in {0, 1} }
                              ELSE @,
                   !.cachedOpen = FALSE,
                   !.afterClose = \E v \in UnitIds \ {u} :
                                     /\ units[v].status = 1
                                     /\ units[v].name = units[u].name
                                     /\ units[v].closed
                                     /\ units[v].st \notin Running,
                   !.calls = IF Branch(units[u].status) # "none" THEN <<"get">> ELSE <<>>,
                   !.closeArg = NoId,
                   !.cached_val = NoVal, !.existing_ticket = NoId,
                   !.new_ticket = NoId, !.ticket_id = NoId, !.closed_ok = FALSE,
                   !.outcome = <<>>, !.observed = ""]
           cached_val == cache[r.name]
       IN
       \/ /\ Branch(r.status) = "down"
          /\ NoFault
          /\ IF Truthy(cached_val)
             THEN Return(u, [r EXCEPT !.cached_val = cached_val,
                                      !.cachedOpen = IsOpen(ParseInt(cached_val)),
                                      !.outcome = <<"create", "skipped">>])
             ELSE units' = [units EXCEPT ![u] = [r EXCEPT !.st = "find"]]
       \/ /\ Branch(r.status) = "up"
          /\ NoFault
          /\ units' = [units EXCEPT ![u] =
                IF Truthy(cached_val)
                THEN [r EXCEPT !.cached_val = cached_val,
                               !.cachedOpen = IsOpen(ParseInt(cached_val)),
                               !.ticket_id = ParseInt(cached_val),
                               !.st = "close"]
                ELSE [r EXCEPT !.st = "find"]]
       \/ /\ Branch(r.status) # "none"
          /\ Fault
          /\ Raise(u, r)
       \/ /\ Branch(r.status) = "none"
          /\ NoFault
          /\ Return(u, [r EXCEPT !.observed = alert_type(r.status)])
    /\ UNCHANGED <<cache, tickets, response, request, requestsLeft, watched, senders>>

\* cw_client.find_open_ticket(ticket_summary): a failed request is None
Find(u) ==
    /\ units[u].st = "find"
    /\ LET r == [units[u] EXCEPT !.calls = Append(@, "find")] IN
       \E existing_ticket \in FindResults(ticket_summary(r.name)) \cup {NoId} :
        /\ IF existing_ticket \in FindResults(ticket_summary(r.name))
           THEN NoFault ELSE Fault
        /\ LET f == [r EXCEPT !.existing_ticket = existing_ticket,
                              !.ticket_id = existing_ticket] IN
           IF Branch(r.status) = "down"
           THEN units' = [units EXCEPT ![u] =
                    [f EXCEPT !.st = IF existing_ticket # NoId
                                     THEN "set_found" ELSE "create"]]
           ELSE IF ShouldClose(f.ticket_id)
           THEN units' = [units EXCEPT ![u] = [f EXCEPT !.st = "close"]]
           ELSE Return(u, [f EXCEPT !.outcome = <<"close", "skipped">>,
                                    !.observed = alert_type(r.status)])
    /\ UNCHANGED <<cache, tickets, response, request, requestsLeft, watched, senders>>

\* mutant: the cache write is left out
CacheSetSkipped(name, ticket_id) == cache' = cache

\* redis_client.set(cache_key, str(ticket_id), ex=CACHE_TTL)
CacheSet(name, ticket_id) == cache' = [cache EXCEPT ![name] = Str(ticket_id)]

\* mutant: the cache entry is not deleted
CacheDeleteSkipped(name) == cache' = cache

\* redis_client.delete(cache_key)
CacheDelete(name) == cache' = [cache EXCEPT ![name] = NoVal]

\* DOWN, a ticket exists in the PSA: update the cache, record the skip
SetFound(u) ==
    /\ units[u].st = "set_found"
    /\ LET r == [units[u] EXCEPT !.calls = Append(@, "set")] IN
       \/ /\ NoFault
          /\ CacheSet(r.name, r.ticket_id)
          /\ Return(u, [r EXCEPT !.outcome = <<"create", "skipped">>])
       \/ /\ Fault
          /\ Raise(u, r)
          /\ UNCHANGED cache
    /\ UNCHANGED <<tickets, response, request, requestsLeft, watched, senders>>

\* cw_client.create_ticket(ticket_summary, ...): the new ticket, or None when
\* the request failed (before the server acted, or after it created the ticket)
Create(u) ==
    /\ units[u].st = "create"
    /\ LET r == [units[u] EXCEPT !.creates = @ + 1,
                                 !.calls = Append(@, "create")]
           added == Append(tickets,
                       [summary |-> ticket_summary(r.name), closed |-> FALSE])
       IN
       \/ /\ NoFault
          /\ tickets' = added
          /\ units' = [units EXCEPT ![u] =
                [r EXCEPT !.new_ticket = Len(added), !.created = TRUE,
                          !.st = "set_new"]]
       \/ /\ Fault
          /\ tickets' \in {tickets, added}
          /\ Return(u, [r EXCEPT !.observed = alert_type(r.status)])
    /\ UNCHANGED <<cache, response, request, requestsLeft, watched, senders>>

\* DOWN, the ticket was created: cache its id, record the success
SetNew(u) ==
    /\ units[u].st = "set_new"
    /\ LET r == [units[u] EXCEPT !.calls = Append(@, "set")] IN
       \/ /\ NoFault
          /\ CacheSet(r.name, r.new_ticket)
          /\ Return(u, [r EXCEPT !.outcome = <<"create", "success">>,
                                 !.observed = alert_type(r.status)])
       \/ /\ Fault
          /\ Raise(u, r)
          /\ UNCHANGED cache
    /\ UNCHANGED <<tickets, response, request, requestsLeft, watched, senders>>

\* mutant: the PATCH leaves the ticket open
PatchedNothing(ticket_id) == tickets

\* the PATCH of close_ticket: status -> closed
Patched(ticket_id) == [tickets EXCEPT ![ticket_id].closed = TRUE]

\* cw_client.close_ticket(ticket_id, resolution): True, or False when the
\* PATCH failed (ticket untouched) or the note request failed (ticket closed)
Close(u) ==
    /\ units[u].st = "close"
    /\ LET r == [units[u] EXCEPT !.closes = @ + 1,
                                 !.calls = Append(@, "close"),
                                 !.closeArg = units[u].ticket_id] IN
       \/ /\ NoFault
          /\ tickets' = Patched(r.ticket_id)
          /\ units' = [units EXCEPT ![u] =
                [r EXCEPT !.closed_ok = TRUE, !.closed = TRUE, !.st = "delete"]]
       \/ /\ Fault
          /\ tickets' \in {tickets, Patched(r.ticket_id)}
          /\ Return(u, [r EXCEPT !.observed = alert_type(r.status)])
    /\ UNCHANGED <<cache, response, request, requestsLeft, watched, senders>>

\* UP, the ticket was closed: delete the cache entry, record the success
Delete(u) ==
    /\ units[u].st = "delete"
    /\ LET r == [units[u] EXCEPT !.calls = Append(@, "delete")] IN
       \/ /\ NoFault
          /\ CacheDelete(r.name)
          /\ Return(u, [r EXCEPT !.outcome = <<"close", "success">>,
                                 !.observed = alert_type(r.status)])
       \/ /\ Fault
          /\ Raise(u, r)
          /\ UNCHANGED cache
    /\ UNCHANGED <<tickets, response, request, requestsLeft, watched, senders>>

\* ------------------------------------------------------- environment
\* the entry's time to live (CACHE_TTL) runs out
Expire(m) ==
    /\ Truthy(cache[m])
    /\ Event("expiry")
    /\ cache' = [cache EXCEPT ![m] = NoVal]
    /\ UNCHANGED <<tickets, units, response, request, requestsLeft, watched, senders>>

\* an operator closes an open ticket directly in the PSA backend
ExternalClose(t) ==
    /\ ~tickets[t].closed
    /\ Event("external")
    /\ tickets' = [tickets EXCEPT ![t].closed = TRUE]
    /\ UNCHANGED <<cache, units, response, request, requestsLeft, watched, senders>>

Step(u) ==
    \/ Start(u)
    \/ Find(u)
    \/ SetFound(u)
    \/ Create(u)
    \/ SetNew(u)
    \/ Close(u)
    \/ Delete(u)

Next ==
    \/ Webhook
    \/ \E u \in UnitIds : Step(u)
    \/ \E m \in Monitors : Expire(m)
    \/ \E t \in DOMAIN tickets : ExternalClose(t)

Spec == Init /\ [][Next]_vars

\* One alert and as many failures as its retries can meet: the task runner.
RetryInit ==
    /\ cache = [m \in Monitors |-> NoVal]
    /\ tickets = <<>>
    /\ units = <<>>
    /\ response = 0
    /\ requestsLeft = 1
    /\ watched = { <<"d", "b">> }
    /\ senders = { <<2, "s1">> }
    /\ request = <<>>
    /\ eventsLeft = Unlimited
    /\ events = {}

\* A worker of the pool takes every unit that is ready, and no call hangs
\* (each carries a timeout): weak fairness of each unit's steps.
RetrySpec ==
    RetryInit /\ [][Next]_vars /\ WF_vars(1 \in UnitIds /\ Step(1))

\* The monitor is down already: an earlier DOWN left its open ticket and
\* the entry with the ticket's id.
WarmInit ==
    /\ tickets = << [summary |-> ticket_summary(<<"d", "b">>), closed |-> FALSE] >>
    /\ cache = [m \in Monitors |-> IF m = <<"d", "b">> THEN Str(1) ELSE NoVal]
    /\ units = <<>>
    /\ response = 0
    /\ requestsLeft = MaxRequests
    /\ watched = { <<"d", "b">> }
    /\ senders = { <<2, "s1">> }
    /\ request = <<>>
    /\ eventsLeft = MaxEvents
    /\ events = {}

WarmSpec == WarmInit /\ [][Next]_vars

\* Two requests from any sender: an address of any kind with any secret
\* header. The other specifications have one trusted sender with the secret.
GateInit ==
    /\ cache = [m \in Monitors |-> NoVal]
    /\ tickets = <<>>
    /\ units = <<>>
    /\ response = 0
    /\ requestsLeft = 2
    /\ watched = { <<"d", "b">> }
    /\ senders = RemoteAddrs \X ProvidedSecrets
    /\ request = <<>>
    /\ eventsLeft = MaxEvents
    /\ events = {}

GateSpec == GateInit /\ [][Next]_vars

\* The alert source watches both monitors; the name of the first is
\* contained in the name of the second.
CrossInit ==
    /\ cache = [m \in Monitors |-> NoVal]
    /\ tickets = <<>>
    /\ units = <<>>
    /\ response = 0
    /\ requestsLeft = MaxRequests
    /\ watched = Monitors
    /\ senders = { <<2, "s1">> }
    /\ request = <<>>
    /\ eventsLeft = MaxEvents
    /\ events = {}

CrossSpec == CrossInit /\ [][Next]_vars

\* =========================================================== claims
Down(u) == units[u].status = 0
Up(u) == units[u].status = 1
SameMonitor(a, b) == units[a].name = units[b].name
Called(u, call) == \E i \in DOMAIN units[u].calls : units[u].calls[i] = call

\* no unit outside S has been taken by a worker
OnlyProcessed(S) == \A v \in UnitIds \ S : units[v].execs = 0
\* every collaborator call so far answered successfully
Answered == "fault" \notin events
\* no operator closed a ticket in the PSA backend
Untouched == "external" \notin events
\* the tickets created for a monitor
TicketsFor(name) ==
    { t \in DOMAIN tickets : tickets[t].summary = ticket_summary(name) }

\* the step of u ends an invocation normally (handle_alert_logic returns)
Returns(u) == units[u].st \notin Final /\ units'[u].st = "succeeded"
\* the step of u ends an invocation in a raised fault
Raises(u) ==
    /\ units[u].st \notin Final
    /\ units'[u].st \in {"queued", "failed"}
    /\ units'[u] # units[u]

\* C1: two DOWN events for one monitor, processed one after the other from
\* the empty cache and no ticket, with no UP in between and every call
\* answered: create_ticket is called once in total, by the first; the second
\* calls it never and ends in a skip, by a cache hit or by a PSA hit.
C1_SecondDownSkips ==
    \A a \in UnitIds : \A b \in UnitIds :
        ( /\ Down(a) /\ Down(b) /\ SameMonitor(a, b)
          /\ a \in units[b].before
          /\ OnlyProcessed({a, b})
          /\ Answered /\ Untouched )
        => /\ units[a].creates = 1
           /\ units[b].creates = 0
           /\ Cardinality(TicketsFor(units[a].name)) = 1
           /\ units[b].st \in Final =>
                /\ units[b].st = "succeeded"
                /\ units[b].outcome = <<"create", "skipped">>
                /\ \/ units[b].calls = <<"get">> /\ Truthy(units[b].cached_val)
                   \/ /\ units[b].calls = <<"get", "find", "set">>
                      /\ units[b].existing_ticket # NoId

\* C1 witness: the second DOWN ended, skipped by the PSA hit after the
\* entry of the first expired
C1_Witness ==
    \E a \in UnitIds : \E b \in UnitIds :
        /\ Down(a) /\ Down(b) /\ SameMonitor(a, b)
        /\ a \in units[b].before
        /\ OnlyProcessed({a, b})
        /\ Answered /\ Untouched
        /\ units[b].st = "succeeded"
        /\ units[b].existing_ticket # NoId

\* C2: two DOWN units for one monitor processed by two workers, from the
\* empty cache and no ticket, in any interleaving of their calls: at most
\* one ticket is created for the monitor.
C2_ConcurrentDownsOneTicket ==
    \A a \in UnitIds : \A b \in UnitIds :
        ( /\ a # b /\ Down(a) /\ Down(b) /\ SameMonitor(a, b)
          /\ OnlyProcessed({a, b})
          /\ events = {} )
        => Cardinality(TicketsFor(units[a].name)) <= 1

\* C3: a DOWN invocation whose get finds an entry for the monitor returns
\* at once: get is its only call (no find, create or close), the cache and
\* the tickets are as before, the outcome is create/skipped; also when the
\* cached ticket is not open any more.
C3_CacheHitSkips ==
    [][ \A u \in UnitIds :
          ( /\ Down(u)
            /\ units[u].st = "queued"
            /\ units'[u].st \notin {"queued", "failed"}
            /\ cache[units[u].name] # NoVal )
          => /\ units'[u].st = "succeeded"
             /\ units'[u].calls = <<"get">>
             /\ units'[u].outcome = <<"create", "skipped">>
             /\ units'[u].creates = units[u].creates
             /\ units'[u].closes = units[u].closes
             /\ cache' = cache
             /\ tickets' = tickets ]_vars

\* C3 witness: a DOWN skipped by an entry whose ticket was closed already
C3_Witness ==
    \E u \in UnitIds :
        /\ Down(u)
        /\ units[u].st = "succeeded"
        /\ units[u].calls = <<"get">>
        /\ units[u].cached_val # NoVal
        /\ ~units[u].cachedOpen

\* C4: a DOWN invocation that found no entry, calling find_open_ticket while
\* the PSA holds an open ticket for the monitor, goes on with such a ticket
\* to the cache write and never to create_ticket; when it returns it has
\* written that id into the monitor's entry, has not called create_ticket
\* and has recorded create/skipped.
C4_CacheRepaired ==
    [][ \A u \in UnitIds :
          /\ ( /\ Down(u)
               /\ units[u].st = "find"
               /\ units'[u].st # "find"
               /\ OpenMatches(ticket_summary(units[u].name)) # {} )
             => /\ units'[u].st = "set_found"
                /\ units'[u].existing_ticket
                      \in OpenMatches(ticket_summary(units[u].name))
          /\ ( /\ Down(u)
               /\ units[u].st = "set_found"
               /\ Returns(u) )
             => /\ Truthy(cache'[units[u].name])
                /\ ParseInt(cache'[units[u].name]) = units[u].existing_ticket
                /\ units'[u].calls = <<"get", "find", "set">>
                /\ units'[u].creates = units[u].creates
                /\ units'[u].outcome = <<"create", "skipped">> ]_vars

\* the id an UP invocation resolved: from the entry, else from the find
Resolved(u) ==
    IF Truthy(units[u].cached_val) THEN ParseInt(units[u].cached_val)
    ELSE units[u].existing_ticket

\* C5: an UP invocation calls close_ticket only with an id it resolved from
\* the entry or from find_open_ticket, and with that id; with no entry and
\* no ticket found it does not call close_ticket and records close/skipped.
C5_CloseNeedsResolvedId ==
    \A u \in UnitIds :
        Up(u) =>
            /\ Called(u, "close") =>
                  /\ units[u].closeArg # NoId
                  /\ units[u].closeArg = Resolved(u)
            /\ ( /\ units[u].st = "succeeded"
                 /\ ~Truthy(units[u].cached_val)
                 /\ units[u].existing_ticket = NoId )
               => /\ ~Called(u, "close")
                  /\ units[u].calls = <<"get", "find">>
                  /\ units[u].outcome = <<"close", "skipped">>

\* C5 witness: an UP called close_ticket with the id of the entry
C5_Witness ==
    \E u \in UnitIds :
        /\ Up(u)
        /\ Called(u, "close")
        /\ Truthy(units[u].cached_val)
        /\ units[u].closeArg = ParseInt(units[u].cached_val)

\* C6: an UP invocation that got True from close_ticket and returns leaves
\* no entry for the monitor: its last call is the delete, and at the return
\* the cache holds nothing for the monitor.
C6_CacheClearedOnClose ==
    [][ \A u \in UnitIds :
          ( /\ Up(u)
            /\ units'[u].closed_ok
            /\ Returns(u) )
          => /\ cache'[units[u].name] = NoVal
             /\ units'[u].calls[Len(units'[u].calls)] = "delete"
             /\ units'[u].outcome = <<"close", "success">> ]_vars

\* C6 witness: an UP returned after closing the ticket of the entry
C6_Witness ==
    \E u \in UnitIds :
        /\ Up(u)
        /\ units[u].st = "succeeded"
        /\ units[u].closed_ok
        /\ Truthy(units[u].cached_val)
        /\ cache[units[u].name] = NoVal

\* C7: a DOWN and then an UP for one monitor, from the empty cache and no
\* ticket, every call answered: one create_ticket call, then one
\* close_ticket call with the id that create returned; afterwards no entry
\* and no open ticket for the monitor.
C7_DownThenUp ==
    \A a \in UnitIds : \A b \in UnitIds :
        ( /\ Down(a) /\ Up(b) /\ SameMonitor(a, b)
          /\ a \in units[b].before
          /\ OnlyProcessed({a, b})
          /\ Answered /\ Untouched
          /\ units[b].st \in Final )
        => /\ units[a].creates = 1 /\ units[b].creates = 0
           /\ units[a].closes = 0 /\ units[b].closes = 1
           /\ units[a].new_ticket # NoId
           /\ units[b].closeArg = units[a].new_ticket
           /\ units[b].st = "succeeded"
           /\ units[b].outcome = <<"close", "success">>
           /\ cache[units[a].name] = NoVal
           /\ OpenMatches(ticket_summary(units[a].name)) = {}

\* C7 witness: the UP ended after the DOWN, both alone
C7_Witness ==
    \E a \in UnitIds : \E b \in UnitIds :
        /\ Down(a) /\ Up(b) /\ SameMonitor(a, b)
        /\ a \in units[b].before
        /\ OnlyProcessed({a, b})
        /\ Answered /\ Untouched
        /\ units[b].st = "succeeded"
        /\ units[b].closeArg = units[a].new_ticket

\* the countdowns of the retries after attempts 0, 1, 2, 3, 4, in seconds
Countdowns == <<60, 120, 240, 480, 960>>

\* C8: an invocation of attempt k (k below the cap) that ends in a raised
\* fault puts the unit back with a countdown of 60 * 2^k seconds: 60, 120,
\* 240, ... for k = 0, 1, 2, ..., each longer than the one before.
C8_ExponentialBackoff ==
    [][ \A u \in UnitIds :
          ( Raises(u) /\ units[u].retries < 5 )
          => /\ units'[u].st = "queued"
             /\ units'[u].retries = units[u].retries + 1
             /\ units'[u].delay = Countdowns[units[u].retries + 1]
             /\ units'[u].delay > units[u].delay ]_vars

\* C8 witness: a unit raised on attempts 0, 1 and 2 and waits 240 seconds
C8_Witness ==
    \E u \in UnitIds :
        /\ units[u].st = "queued"
        /\ units[u].execs = 3
        /\ units[u].retries = 3
        /\ units[u].delay = 240

\* C9: no unit is executed more than 6 times; a unit is failed for good
\* only after its 6th execution raised; a unit that succeeded or failed
\* for good is never executed again.
C9_AtMostSixExecutions ==
    /\ [](\A u \in UnitIds :
            /\ units[u].execs <= 6
            /\ units[u].st = "failed" =>
                  /\ units[u].execs = 6
                  /\ units[u].outcome[2] = "error")
    /\ [][ \A u \in UnitIds :
             /\ units[u].st \in Final => units'[u] = units[u]
             /\ ( Raises(u) /\ units[u].execs = 6 ) => units'[u].st = "failed"
         ]_vars

\* C9 witness: a unit raised on all 6 executions and is failed for good
C9_Witness ==
    \E u \in UnitIds :
        /\ units[u].st = "failed"
        /\ units[u].execs = 6
        /\ units[u].retries = 5

\* C10: with workers that take every ready unit, every unit the webhook
\* enqueued ends as succeeded or as failed for good, whichever calls fail.
C10_EveryUnitEnds ==
    \A u \in 1..MaxRequests :
        (u \in UnitIds) ~> (u \in UnitIds /\ units[u].st \in Final)

\* C10 witness: a unit succeeded on its last attempt, after 5 raised ones
C10_Witness ==
    \E u \in UnitIds :
        /\ units[u].st = "succeeded"
        /\ units[u].retries = 5
        /\ units[u].execs = 6

\* the call the next step of u makes is a cache call (get, set, delete)
AtCacheCall(u) == units[u].st \in {"queued", "set_found", "set_new", "delete"}

\* C11: a cache call (get, set or delete) that fails during a DOWN or UP
\* invocation does not end the invocation in a raised fault: the engine
\* goes on as with an empty cache.
C11_CacheFailureTolerated ==
    [][ \A u \in UnitIds :
          ( (Down(u) \/ Up(u)) /\ AtCacheCall(u) ) => ~Raises(u) ]_vars

\* C12: an invocation that returns right after create_ticket gave none, or
\* right after close_ticket gave false, has recorded the error outcome of
\* that action: create/error, respectively close/error.
C12_FailedCallRecordsError ==
    [][ \A u \in UnitIds :
          /\ ( Down(u) /\ units[u].st = "create" /\ Returns(u) )
                => units'[u].outcome = <<"create", "error">>
          /\ ( Up(u) /\ units[u].st = "close" /\ Returns(u) )
                => units'[u].outcome = <<"close", "error">> ]_vars

\* C13: a DOWN unit processed alone from the empty cache and no ticket
\* never ends as completed with no ticket for its monitor and no error
\* outcome recorded; one that failed for good has its error recorded.
C13_NoSilentLoss ==
    \A u \in UnitIds :
        ( Down(u) /\ OnlyProcessed({u}) /\ events \subseteq {"fault"} ) =>
            /\ units[u].st = "succeeded" =>
                  \/ TicketsFor(units[u].name) # {}
                  \/ ( units[u].outcome # <<>> /\ units[u].outcome[2] = "error" )
            /\ units[u].st = "failed" =>
                  ( units[u].outcome # <<>> /\ units[u].outcome[2] = "error" )

\* C14: processing an alert whose status is neither 0 nor 1 makes no cache
\* call and no PSA call, and leaves the cache and the tickets as they were.
C14_OtherStatusNoOp ==
    [][ \A u \in UnitIds :
          ( units[u].status \notin {0, 1} /\ units'[u] # units[u] )
          => /\ units'[u].st = "succeeded"
             /\ units'[u].calls = <<>>
             /\ units'[u].creates = 0 /\ units'[u].closes = 0
             /\ cache' = cache
             /\ tickets' = tickets ]_vars

\* C14 witness: such an alert was processed while the monitor had an entry
\* and an open ticket
C14_Witness ==
    \E u \in UnitIds :
        /\ units[u].status \notin {0, 1}
        /\ units[u].st = "succeeded"
        /\ cache[units[u].name] # NoVal
        /\ OpenMatches(ticket_summary(units[u].name)) # {}

\* no DOWN unit of u's monitor has been taken by a worker
NoDownProcessed(u) ==
    \A v \in UnitIds : (Down(v) /\ SameMonitor(u, v)) => units[v].execs = 0

\* C15: an UP invocation that began after an invocation of another UP unit
\* of the monitor had closed the ticket (True from close_ticket) and ended,
\* with no DOWN for the monitor processed, calls close_ticket never,
\* changes neither the cache nor the tickets, and records close/skipped
\* when it returns.
C15_RepeatedUpNoOp ==
    [][ \A u \in UnitIds :
          ( /\ Up(u)
            /\ units[u].st \in Running
            /\ units[u].afterClose
            /\ NoDownProcessed(u)
            /\ units'[u] # units[u] )
          => /\ units'[u].closes = units[u].closes
             /\ cache' = cache
             /\ tickets' = tickets
             /\ Returns(u) => units'[u].outcome = <<"close", "skipped">> ]_vars

\* C16: no attempt of a unit repeats a ticket mutation an earlier attempt
\* of the unit made: a DOWN unit that got a ticket from create_ticket
\* makes no further ticket, an UP unit that got True from close_ticket
\* does not call close_ticket again.
C16_RetryRepeatsNoMutation ==
    [][ \A u \in UnitIds :
          /\ ( Down(u) /\ units[u].created /\ units'[u] # units[u] )
                => /\ units'[u].creates = units[u].creates
                   /\ Len(tickets') = Len(tickets)
          /\ ( Up(u) /\ units[u].closed /\ units'[u] # units[u] )
                => units'[u].closes = units[u].closes ]_vars

\* the addresses outside the trusted network {2, 3}, and what is no address
UntrustedAddrs == {BadAddr, 0, 1}

OutcomeActions == {"create", "close", "ignore"}
OutcomeResults == {"success", "skipped", "error"}

\* C18: every outcome recorded has its action among create, close, ignore
\* and its result among success, skipped, error; a DOWN invocation records
\* action create, an UP invocation action close, also when it ends in a
\* raised fault; an alert of another status, once processed, has recorded
\* an outcome of action ignore.
C18_OutcomeTaxonomy ==
    \A u \in UnitIds :
        /\ units[u].outcome # <<>> =>
              /\ units[u].outcome[1] \in OutcomeActions
              /\ units[u].outcome[2] \in OutcomeResults
              /\ Down(u) => units[u].outcome[1] = "create"
              /\ Up(u) => units[u].outcome[1] = "close"
        /\ ( units[u].status \notin {0, 1} /\ units[u].st = "succeeded" ) =>
              ( units[u].outcome # <<>> /\ units[u].outcome[1] = "ignore" )

\* C19: a DOWN and then an UP enqueued for one monitor, from the empty
\* cache and no ticket, the UP processed to its end before the DOWN is
\* taken, no call failing and nothing expiring: the UP ends in close/skipped
\* without a close_ticket call, the DOWN creates a ticket, and when both
\* have ended that ticket is open and cached, closed by neither unit.
C19_UpBeforeDown ==
    \A a \in UnitIds : \A b \in UnitIds :
        ( /\ Down(a) /\ Up(b) /\ SameMonitor(a, b)
          /\ a < b
          /\ b \in units[a].before
          /\ OnlyProcessed({a, b})
          /\ events = {} )
        => /\ units[b].st = "succeeded"
           /\ units[b].outcome = <<"close", "skipped">>
           /\ units[b].closes = 0 /\ units[a].closes = 0
           /\ units[a].st \in Final =>
                /\ units[a].st = "succeeded"
                /\ units[a].creates = 1
                /\ units[a].outcome = <<"create", "success">>
                /\ OpenMatches(ticket_summary(units[a].name)) = {units[a].new_ticket}
                /\ cache[units[a].name] # NoVal
                /\ ParseInt(cache[units[a].name]) = units[a].new_ticket

\* C19 witness: both ended, the UP first, the DOWN's ticket left open
C19_Witness ==
    \E a \in UnitIds : \E b \in UnitIds :
        /\ Down(a) /\ Up(b) /\ SameMonitor(a, b)
        /\ a < b
        /\ b \in units[a].before
        /\ events = {}
        /\ units[a].st = "succeeded"
        /\ IsOpen(units[a].new_ticket)

\* the cache write is among the calls the invocation of u has made
WroteCache(r) == \E i \in DOMAIN r.calls : r.calls[i] = "set"

\* C20: in every invocation the first call is the cache get, and an
\* invocation, DOWN or UP, to which find_open_ticket or create_ticket
\* returned a ticket has made the cache write by the time it ends.
C20_CacheFirstAndWrittenBack ==
    [][ \A u \in UnitIds :
          /\ units'[u].calls # <<>> => units'[u].calls[1] = "get"
          /\ ( /\ Returns(u) \/ Raises(u)
               /\ \/ units'[u].existing_ticket # NoId
                  \/ units'[u].new_ticket # NoId )
             => WroteCache(units'[u]) ]_vars

\* the ticket was created for the monitor of u
OwnTicket(u, ticket_id) ==
    tickets[ticket_id].summary = ticket_summary(units[u].name)

\* C21: a DOWN is skipped by the PSA search only for a ticket created for
\* its own monitor, and an UP calls close_ticket only with the id of a
\* ticket created for its own monitor, also when the summary of the monitor
\* is contained in the summary of another monitor.
C21_MonitorsIsolated ==
    \A u \in UnitIds :
        /\ ( Down(u) /\ units[u].existing_ticket # NoId )
              => OwnTicket(u, units[u].existing_ticket)
        /\ ( Up(u) /\ units[u].closeArg # NoId )
              => OwnTicket(u, units[u].closeArg)

\* C22: with no call failing, nothing expiring and no ticket closed from
\* outside, once every unit has ended, in whatever interleaving the workers
\* processed them, an entry of the cache holds the id of a ticket that is
\* open.
C22_CacheNeverPointsAtClosed ==
    ( /\ events = {}
      /\ \A u \in UnitIds : units[u].st \in Final )
    => \A m \in Monitors :
          cache[m] # NoVal => IsOpen(ParseInt(cache[m]))

====
